---- MODULE Spec2Model ----
(***************************************************************************)
(* Model of tweets/models.py: the Tweet and TweetPhoto records, the        *)
(* referential actions of their foreign keys, the auto-assigned creation   *)
(* timestamp, the length limit of Tweet.content, the default ordering of   *)
(* Tweet queries, and the derived accessors hours_to_now and like_set.     *)
(*                                                                         *)
(* Instants are whole seconds since an epoch.  A Tweet's content is        *)
(* represented by its number of characters, the only thing the schema      *)
(* looks at.  Rows are functions from primary key to record.               *)
(***************************************************************************)
EXTENDS Integers, Sequences, FiniteSets

VARIABLES users, tweets, photos, likes, nextTweetId, nextPhotoId, nextLikeId,
          clock, result

vars == <<users, tweets, photos, likes, nextTweetId, nextPhotoId, nextLikeId,
          clock, result>>

(***************************************************************************)
(* Bounds of the model.                                                    *)
(***************************************************************************)
MaxUsers == 2
MaxTweets == 1
MaxOrderedTweets == 3
MaxPhotos == 1
MaxLikes == 3
MaxObjectIds == 2
MaxClock == 1
MaxHours == 25
MaxCreatedHours == 1

(***************************************************************************)
(* Program constants.                                                      *)
(***************************************************************************)
\* null=True: the value of a cleared foreign key or an unset timestamp.
NULL == -1
\* CharField(max_length=255)
max_length == 255
\* IntegerField(default=0)
order_default == 0
\* timedelta.seconds is the seconds component of a normalised timedelta,
\* 0 <= seconds < 86400; hours_to_now divides it by 3600.
SecondsPerDay == 86400
SecondsPerHour == 3600
\* tweets.constants.TweetPhotoStatus
PENDING == 0
APPROVED == 1
REJECTED == 2

TWEET_PHOTO_STATUS_CHOICES == {PENDING, APPROVED, REJECTED}

Users == 1..MaxUsers
TweetIds == 1..MaxTweets
PhotoIds == 1..MaxPhotos
LikeIds == 1..MaxLikes
ObjectIds == 1..MaxObjectIds
Files == {"f1"}
Orders == {order_default, order_default + 1}
ContentTypes == {"tweet", "comment"}
ContentLengths == {1, max_length, max_length + 1}

\* the outcome of the last operation: whether it was accepted, its argument
\* (a content length or the key of the row read), the instant of a read, the
\* value returned (a new key, a computed value, or for a delete the number of
\* references it cleared) and the rows a query returned
Outcome(op, ok, arg, at, value, rows) ==
    [op |-> op, ok |-> ok, arg |-> arg, at |-> at, value |-> value, rows |-> rows]

NoOutcome == Outcome("none", TRUE, NULL, NULL, NULL, <<>>)

(***************************************************************************)
(* Framework semantics of the declarations used by the models.             *)
(***************************************************************************)
\* on_delete=CASCADE, the referential action the models do NOT declare:
\* the referencing rows are deleted with the referenced row.
CASCADE(rows, field, id) ==
    [r \in {x \in DOMAIN rows : rows[x][field] /= id} |-> rows[r]]

\* on_delete=models.SET_NULL: every row whose `field` references the deleted
\* row `id` gets that column set to NULL; nothing else is written.
SET_NULL(rows, field, id) ==
    [r \in DOMAIN rows |->
        IF rows[r][field] = id THEN [rows[r] EXCEPT ![field] = NULL] ELSE rows[r]]

\* the rows whose `field` references row `id`
Referencing(rows, field, id) == {r \in DOMAIN rows : rows[r][field] = id}

\* DateTimeField(auto_now=True), which the models do NOT declare: the
\* column is overwritten with the current instant on every save.
auto_now(add, value, now) == now

\* DateTimeField(auto_now_add=True).pre_save: on insert the column is the
\* current instant, whatever the caller supplied; on a later save it is the
\* value the instance carries.
auto_now_add(add, value, now) == IF add THEN now ELSE value

\* How the store treats a value longer than its varchar(255) column.
\* CharField(max_length=255) adds a validator that only full_clean() runs;
\* save() and objects.create() never call it, so the INSERT or UPDATE is
\* sent as it is and the outcome is the store's: a DataError ("strict":
\* PostgreSQL, MySQL in strict mode), the value cut to the column's length
\* ("truncating": MySQL outside strict mode), or the value kept whole
\* ("unchecked": SQLite, which does not enforce varchar lengths).
Stores == {"strict", "truncating", "unchecked"}

\* the content the store writes for `content`, or NULL when it raises
column_write(content, store) ==
    IF content <= max_length THEN content
    ELSE CASE store = "strict" -> NULL
           [] store = "truncating" -> max_length
           [] store = "unchecked" -> content

\* All the sequences that list the keys of `rows` once each.
Permutations(S) ==
    {s \in [1..Cardinality(S) -> S] : \A i, j \in 1..Cardinality(S) : s[i] = s[j] => i = j}

\* order_by: the listings of the rows `keys` in which no row stands after a
\* row it must precede (`before` holds the pairs <<a, b>> where a sorts
\* strictly before b); rows with equal sort keys come in any order.
OrderedBy(keys, before) ==
    {s \in Permutations(keys) :
        \A i, j \in 1..Len(s) : i < j => <<s[j], s[i]>> \notin before}

\* the position of a user column in an ascending sort; the store decides
\* whether NULL sorts before or after every id
UserKey(u, nullsFirst) ==
    IF u = NULL THEN (IF nullsFirst THEN 0 ELSE MaxUsers + 1) ELSE u

(***************************************************************************)
(* class Tweet                                                             *)
(***************************************************************************)
\* ordering = ('-created_at',): newest first, the user column ignored
ordering_by_created_only(a, b, nullsFirst) == a.created_at > b.created_at

\* Meta.ordering = ('user', '-created_at')
ordering(a, b, nullsFirst) ==
    \/ UserKey(a.user, nullsFirst) < UserKey(b.user, nullsFirst)
    \/ /\ UserKey(a.user, nullsFirst) = UserKey(b.user, nullsFirst)
       /\ a.created_at > b.created_at

\* Tweet.objects.all() with no order_by
DefaultOrdered(nullsFirst) ==
    OrderedBy(DOMAIN tweets,
              {pr \in (DOMAIN tweets) \X (DOMAIN tweets) :
                  ordering(tweets[pr[1]], tweets[pr[2]], nullsFirst)})

\* utc_now() - self.created_at: a timedelta, normalised so that
\* 0 <= seconds < 86400 and days carries the rest (negative if now is earlier)
Timedelta(a, b) ==
    [days |-> (a - b) \div SecondsPerDay, seconds |-> (a - b) % SecondsPerDay]

\* the whole elapsed time in hours: timedelta.total_seconds() // 3600
hours_of_total_seconds(t) ==
    (Timedelta(clock, tweets[t].created_at).days * SecondsPerDay
        + Timedelta(clock, tweets[t].created_at).seconds) \div SecondsPerHour

\* Tweet.hours_to_now: (utc_now() - self.created_at).seconds // 3600
hours_to_now(t) ==
    Timedelta(clock, tweets[t].created_at).seconds \div SecondsPerHour

\* Like.created_at descending
LikeBefore(a, b) == a.created_at > b.created_at

\* a filter on object_id alone
like_set_any_type(t) ==
    LET found == {x \in DOMAIN likes : likes[x].object_id = t}
    IN  OrderedBy(found, {pr \in found \X found : LikeBefore(likes[pr[1]], likes[pr[2]])})

\* a filter on content_type alone: the likes of every tweet
like_set_any_object(t) ==
    LET found == {x \in DOMAIN likes : likes[x].content_type = "tweet"}
    IN  OrderedBy(found, {pr \in found \X found : LikeBefore(likes[pr[1]], likes[pr[2]])})

\* Tweet.like_set: Like.objects.filter(content_type=<Tweet>, object_id=self.id)
\*                     .order_by('-created_at')
like_set(t) ==
    LET found == {x \in DOMAIN likes :
                    /\ likes[x].content_type = "tweet"
                    /\ likes[x].object_id = t}
    IN  OrderedBy(found, {pr \in found \X found : LikeBefore(likes[pr[1]], likes[pr[2]])})

\* Tweet.objects.create(user=u, content=c, created_at=given) on a store of
\* kind `store`; no validator runs, the store decides about a long content
CreateTweet(u, c, given, store) ==
    /\ u \in users \cup {NULL}
    /\ IF column_write(c, store) /= NULL
       THEN /\ tweets' = [t \in DOMAIN tweets \cup {nextTweetId} |->
                            IF t = nextTweetId
                            THEN [user |-> u, content |-> column_write(c, store),
                                  created_at |-> auto_now_add(TRUE, given, clock)]
                            ELSE tweets[t]]
            /\ nextTweetId' = nextTweetId + 1
            /\ result' = Outcome("create_tweet", TRUE, c, NULL, nextTweetId, <<>>)
       ELSE /\ UNCHANGED <<tweets, nextTweetId>>
            /\ result' = Outcome("create_tweet", FALSE, c, NULL, NULL, <<>>)
    /\ UNCHANGED <<users, photos, likes, nextPhotoId, nextLikeId, clock>>

\* tweet.user = u; tweet.content = c; tweet.save() on a stored Tweet
\* (u and c may be the stored values: a plain re-save); no validator runs
SaveTweet(t, u, c, store) ==
    /\ t \in DOMAIN tweets
    /\ u \in users \cup {NULL}
    /\ IF column_write(c, store) /= NULL
       THEN /\ tweets' = [tweets EXCEPT ![t] =
                            [user |-> u, content |-> column_write(c, store),
                             created_at |-> auto_now_add(FALSE, tweets[t].created_at, clock)]]
            /\ result' = Outcome("save_tweet", TRUE, c, NULL, t, <<>>)
       ELSE /\ UNCHANGED tweets
            /\ result' = Outcome("save_tweet", FALSE, c, NULL, t, <<>>)
    /\ UNCHANGED <<users, photos, likes, nextTweetId, nextPhotoId, nextLikeId, clock>>

\* tweet.delete(): TweetPhoto.tweet is SET_NULL; Tweet declares no relation
\* to Like, so no Like is touched
DeleteTweet(t) ==
    /\ t \in DOMAIN tweets
    /\ tweets' = [x \in DOMAIN tweets \ {t} |-> tweets[x]]
    /\ photos' = SET_NULL(photos, "tweet", t)
    /\ result' = Outcome("delete_tweet", TRUE, NULL, NULL,
                          Cardinality(Referencing(photos, "tweet", t)), <<>>)
    /\ UNCHANGED <<users, likes, nextTweetId, nextPhotoId, nextLikeId, clock>>

\* user.delete(): Tweet.user and TweetPhoto.user are SET_NULL
DeleteUser(u) ==
    /\ u \in users
    /\ users' = users \ {u}
    /\ tweets' = SET_NULL(tweets, "user", u)
    /\ photos' = SET_NULL(photos, "user", u)
    /\ result' = Outcome("delete_user", TRUE, NULL, NULL,
                          Cardinality(Referencing(tweets, "user", u))
                            + Cardinality(Referencing(photos, "user", u)), <<>>)
    /\ UNCHANGED <<likes, nextTweetId, nextPhotoId, nextLikeId, clock>>

\* list(Tweet.objects.all())
QueryTweets(nullsFirst) ==
    /\ \E rows \in DefaultOrdered(nullsFirst) :
          result' = Outcome("query_tweets", TRUE, NULL, NULL, NULL, rows)
    /\ UNCHANGED <<users, tweets, photos, likes, nextTweetId, nextPhotoId,
                   nextLikeId, clock>>

\* tweet.hours_to_now
ReadHoursToNow(t) ==
    /\ t \in DOMAIN tweets
    /\ result' = Outcome("hours_to_now", TRUE, t, clock, hours_to_now(t), <<>>)
    /\ UNCHANGED <<users, tweets, photos, likes, nextTweetId, nextPhotoId,
                   nextLikeId, clock>>

\* list(tweet.like_set)
ReadLikeSet(t) ==
    /\ t \in DOMAIN tweets
    /\ \E rows \in like_set(t) :
          result' = Outcome("like_set", TRUE, t, NULL, NULL, rows)
    /\ UNCHANGED <<users, tweets, photos, likes, nextTweetId, nextPhotoId,
                   nextLikeId, clock>>

(***************************************************************************)
(* likes.models.Like, as far as Tweet.like_set reads it                    *)
(***************************************************************************)
\* Like.objects.create(content_type=ct, object_id=oid)
CreateLike(ct, oid) ==
    /\ likes' = [l \in DOMAIN likes \cup {nextLikeId} |->
                    IF l = nextLikeId
                    THEN [content_type |-> ct, object_id |-> oid, created_at |-> clock]
                    ELSE likes[l]]
    /\ nextLikeId' = nextLikeId + 1
    /\ result' = Outcome("create_like", TRUE, NULL, NULL, nextLikeId, <<>>)
    /\ UNCHANGED <<users, tweets, photos, nextTweetId, nextPhotoId, clock>>

(***************************************************************************)
(* class TweetPhoto                                                        *)
(***************************************************************************)
\* a photo that is born approved
TweetPhotoDefaultsApproved ==
    [order |-> order_default, status |-> APPROVED, has_deleted |-> FALSE,
     deleted_at |-> NULL]

\* the defaults of the columns a caller may leave out
TweetPhotoDefaults ==
    [order |-> order_default, status |-> PENDING, has_deleted |-> FALSE,
     deleted_at |-> NULL]

\* TweetPhoto.objects.create(tweet=t, user=u, file=f)
CreatePhoto(t, u, f) ==
    /\ t \in DOMAIN tweets \cup {NULL}
    /\ u \in users \cup {NULL}
    /\ photos' = [p \in DOMAIN photos \cup {nextPhotoId} |->
                    IF p = nextPhotoId
                    THEN [tweet |-> t, user |-> u, file |-> f,
                          order |-> TweetPhotoDefaults.order,
                          status |-> TweetPhotoDefaults.status,
                          has_deleted |-> TweetPhotoDefaults.has_deleted,
                          deleted_at |-> TweetPhotoDefaults.deleted_at,
                          created_at |-> auto_now_add(TRUE, NULL, clock)]
                    ELSE photos[p]]
    /\ nextPhotoId' = nextPhotoId + 1
    /\ result' = Outcome("create_photo", TRUE, NULL, NULL, nextPhotoId, <<>>)
    /\ UNCHANGED <<users, tweets, likes, nextTweetId, nextLikeId, clock>>

\* the columns of TweetPhoto a caller writes after creation
PhotoFields == {"order", "status", "has_deleted", "deleted_at"}

\* the values a column of TweetPhoto accepts
FieldValues(field) ==
    CASE field = "order" -> Orders
      [] field = "status" -> TWEET_PHOTO_STATUS_CHOICES
      [] field = "has_deleted" -> BOOLEAN
      [] field = "deleted_at" -> {NULL, clock}

\* setattr(photo, field, v); photo.save() on a stored TweetPhoto: the
\* columns are independent, the model overrides neither save() nor clean()
\* and declares no constraint
SavePhoto(p, field, v) ==
    /\ p \in DOMAIN photos
    /\ photos' = [photos EXCEPT ![p] =
                    [[photos[p] EXCEPT ![field] = v] EXCEPT
                        !.created_at = auto_now_add(FALSE, photos[p].created_at, clock)]]
    /\ result' = Outcome("save_photo", TRUE, NULL, NULL, NULL, <<>>)
    /\ UNCHANGED <<users, tweets, likes, nextTweetId, nextPhotoId, nextLikeId, clock>>

\* the soft delete of a photo: the flag and the instant in one save
SoftDelete(p) ==
    /\ p \in DOMAIN photos
    /\ photos' = [photos EXCEPT ![p].has_deleted = TRUE, ![p].deleted_at = clock]
    /\ result' = Outcome("soft_delete", TRUE, NULL, NULL, NULL, <<>>)
    /\ UNCHANGED <<users, tweets, likes, nextTweetId, nextPhotoId, nextLikeId, clock>>

(***************************************************************************)
(* The clock                                                               *)
(***************************************************************************)
\* utc_now() advances by d seconds
Tick(d) ==
    /\ d > 0
    /\ clock' = clock + d
    /\ UNCHANGED <<users, tweets, photos, likes, nextTweetId, nextPhotoId,
                   nextLikeId, result>>

(***************************************************************************)
(* Specifications                                                          *)
(***************************************************************************)
Empty == [x \in {} |-> NULL]

Init ==
    /\ users = Users
    /\ tweets = Empty
    /\ photos = Empty
    /\ likes = Empty
    /\ nextTweetId = 1
    /\ nextPhotoId = 1
    /\ nextLikeId = 1
    /\ clock = 0
    /\ result = NoOutcome

\* Foreign keys: users, their tweets, and the photos of both.  (Here and in
\* NextOrder and NextLikes every content has one character, which every
\* store writes as it is.)
Next ==
    \/ /\ nextTweetId <= MaxTweets
       /\ \E u \in Users \cup {NULL} : CreateTweet(u, 1, NULL, "strict")
    \/ \E t \in TweetIds : DeleteTweet(t)
    \/ \E u \in Users : DeleteUser(u)
    \/ /\ nextPhotoId <= MaxPhotos
       /\ \E t \in TweetIds \cup {NULL}, u \in Users \cup {NULL}, f \in Files :
             CreatePhoto(t, u, f)
    \/ clock < MaxClock /\ Tick(1)

Spec == Init /\ [][Next]_vars

\* The columns of a TweetPhoto: creation with defaults and later writes.
NextPhoto ==
    \/ /\ nextPhotoId <= MaxPhotos
       /\ \E u \in Users \cup {NULL}, f \in Files : CreatePhoto(NULL, u, f)
    \/ \E p \in PhotoIds, field \in PhotoFields :
          \E v \in FieldValues(field) : SavePhoto(p, field, v)
    \/ \E p \in PhotoIds : SoftDelete(p)
    \/ clock < MaxClock /\ Tick(1)

SpecPhoto == Init /\ [][NextPhoto]_vars

\* The columns of a Tweet: creation and later saves.
NextSave ==
    \/ /\ nextTweetId <= MaxTweets
       /\ \E u \in Users \cup {NULL}, c \in ContentLengths, given \in {NULL, 0},
             store \in Stores :
             CreateTweet(u, c, given, store)
    \/ \E t \in TweetIds, u \in Users \cup {NULL}, c \in ContentLengths,
          store \in Stores :
          SaveTweet(t, u, c, store)
    \/ \E u \in Users : DeleteUser(u)
    \/ clock < MaxClock /\ Tick(1)

SpecSave == Init /\ [][NextSave]_vars

\* The default ordering of Tweet queries.
NextOrder ==
    \/ /\ nextTweetId <= MaxOrderedTweets
       /\ \E u \in Users \cup {NULL} : CreateTweet(u, 1, NULL, "strict")
    \/ \E u \in Users : DeleteUser(u)
    \/ \E nullsFirst \in BOOLEAN : QueryTweets(nullsFirst)
    \/ clock < MaxClock /\ Tick(1)

SpecOrder == Init /\ [][NextOrder]_vars

\* Likes of several tweets and of comments with the same ids, and
\* Tweet.like_set.
NextLikes ==
    \/ /\ nextTweetId <= MaxObjectIds
       /\ CreateTweet(NULL, 1, NULL, "strict")
    \/ /\ nextLikeId <= MaxLikes
       /\ \E ct \in ContentTypes, oid \in ObjectIds : CreateLike(ct, oid)
    \/ \E t \in ObjectIds : ReadLikeSet(t)
    \/ clock < MaxClock /\ Tick(1)

SpecLikes == Init /\ [][NextLikes]_vars

\* hours_to_now of one tweet, read as the clock advances.  The tweet's
\* created_at and the reader's clock are set by different hosts, so the
\* first read may see a clock that is behind created_at.
Instants == {h * SecondsPerHour + o : h \in 0..MaxHours, o \in {0, SecondsPerHour - 1}}

CreatedInstants == {i \in Instants : i <= MaxCreatedHours * SecondsPerHour}

InitHours ==
    /\ users = Users
    /\ \E c \in CreatedInstants :
          tweets = [t \in {1} |-> [user |-> 1, content |-> 1, created_at |-> c]]
    /\ photos = Empty
    /\ likes = Empty
    /\ nextTweetId = 2
    /\ nextPhotoId = 1
    /\ nextLikeId = 1
    /\ clock \in Instants
    /\ result = NoOutcome

NextHours ==
    \/ ReadHoursToNow(1)
    \/ \E i \in Instants : Tick(i - clock)

SpecHours == InitHours /\ [][NextHours]_vars

(***************************************************************************)
(* Properties                                                              *)
(***************************************************************************)
\* the rows of a query result, as a set
RowSet(rows) == {rows[i] : i \in 1..Len(rows)}

\* C1: for every Tweet read at an instant now >= created_at, hours_to_now is
\* floor((now - created_at) in elapsed seconds / 3600): 0 right after
\* creation, and the whole number of elapsed hours also beyond 24 hours.
C1_HoursIsFloorOfElapsed ==
    (result.op = "hours_to_now" /\ result.at >= tweets[result.arg].created_at)
        => result.value = (result.at - tweets[result.arg].created_at) \div 3600

\* C2: for a fixed created_at, hours_to_now never decreases as the clock
\* advances: a read at t1 and a later read at t2 >= t1 give h1 <= h2.
C2_HoursMonotone ==
    [][(/\ result.op = "hours_to_now"
        /\ result'.op = "hours_to_now"
        /\ result.arg = result'.arg
        /\ tweets'[result'.arg].created_at = tweets[result.arg].created_at
        /\ result.at <= result'.at)
       => result.value <= result'.value]_vars

\* C3: in every reachable state every TweetPhoto has has_deleted = TRUE
\* exactly when deleted_at is not NULL.
C3_DeletedIffDeletedAt ==
    \A p \in DOMAIN photos : photos[p].has_deleted <=> (photos[p].deleted_at /= NULL)

\* C4: deleting a User or a Tweet deletes no referencing Tweet or TweetPhoto:
\* each referencing row stays, with that reference NULL and its other
\* columns as they were, and every other row is unchanged.
C4_DeleteSetsNull ==
    [][/\ \A u \in users \ users' :
             /\ DOMAIN tweets' = DOMAIN tweets
             /\ DOMAIN photos' = DOMAIN photos
             /\ \A t \in DOMAIN tweets :
                   tweets'[t] = IF tweets[t].user = u
                                THEN [tweets[t] EXCEPT !.user = NULL]
                                ELSE tweets[t]
             /\ \A p \in DOMAIN photos :
                   photos'[p] = IF photos[p].user = u
                                THEN [photos[p] EXCEPT !.user = NULL]
                                ELSE photos[p]
       /\ \A t \in (DOMAIN tweets) \ (DOMAIN tweets') :
             /\ DOMAIN tweets' = (DOMAIN tweets) \ {t}
             /\ \A x \in DOMAIN tweets' : tweets'[x] = tweets[x]
             /\ DOMAIN photos' = DOMAIN photos
             /\ \A p \in DOMAIN photos :
                   photos'[p] = IF photos[p].tweet = t
                                THEN [photos[p] EXCEPT !.tweet = NULL]
                                ELSE photos[p]]_vars

\* a user who owned a tweet and a photo was deleted: both rows are still
\* stored, with no user
C4_Witness ==
    /\ result.op = "delete_user"
    /\ result.value >= 2
    /\ \E t \in DOMAIN tweets : tweets[t].user = NULL
    /\ \E p \in DOMAIN photos : photos[p].user = NULL /\ photos[p].tweet /= NULL

\* C5: a Tweet's created_at is the instant of its creation and no later
\* write (a re-save, a change of content or user, the deletion of its user)
\* changes it.
C5_CreatedAtImmutable ==
    [][\A t \in DOMAIN tweets' :
          IF t \in DOMAIN tweets
          THEN tweets'[t].created_at = tweets[t].created_at
          ELSE tweets'[t].created_at = clock]_vars

\* a tweet was saved again at an instant later than its creation and still
\* carries the creation instant
C5_Witness ==
    /\ result.op = "save_tweet"
    /\ result.ok
    /\ result.value \in DOMAIN tweets
    /\ tweets[result.value].created_at < clock

\* C6: every stored Tweet has at most 255 characters of content; a create
\* or a save with more is rejected and leaves the stored Tweets as they were.
C6_ContentWithinMaxLength ==
    [][/\ \A t \in DOMAIN tweets' : tweets'[t].content <= 255
       /\ (result'.op \in {"create_tweet", "save_tweet"} /\ result'.arg > 255)
             => (~result'.ok /\ tweets' = tweets)]_vars

\* C7: like_set of Tweet t lists exactly the Likes whose (content type,
\* object id) is (Tweet, t.id), each once, newest first (empty when there is
\* none), and reading it changes no stored Tweet, TweetPhoto or Like.
C7_LikeSetExact ==
    [][result'.op = "like_set" =>
        LET rows == result'.rows
            t == result'.arg
            matching == {l \in DOMAIN likes' :
                            likes'[l].content_type = "tweet" /\ likes'[l].object_id = t}
        IN  /\ RowSet(rows) = matching
            /\ Len(rows) = Cardinality(matching)
            /\ \A i \in 1..(Len(rows) - 1) :
                  likes'[rows[i]].created_at >= likes'[rows[i + 1]].created_at
            /\ UNCHANGED <<tweets, photos, likes>>]_vars

\* like_set of one tweet returned its two likes, made at different instants,
\* newest first, while a like of another tweet is stored
C7_Witness ==
    /\ result.op = "like_set"
    /\ Len(result.rows) = 2
    /\ likes[result.rows[1]].created_at > likes[result.rows[2]].created_at
    /\ \E l \in DOMAIN likes :
          likes[l].content_type = "tweet" /\ likes[l].object_id /= result.arg

\* like_set left out a like of a comment that has the tweet's id
C7_CommentLeftOut ==
    /\ result.op = "like_set"
    /\ Len(result.rows) >= 1
    /\ \E l \in DOMAIN likes :
          likes[l].content_type = "comment" /\ likes[l].object_id = result.arg

\* like_set of a tweet without likes is empty while another tweet has likes
C7_EmptyReached ==
    /\ result.op = "like_set"
    /\ result.rows = <<>>
    /\ \E l \in DOMAIN likes : likes[l].content_type = "tweet"

\* C8: a Tweet query with no explicit ordering lists every stored Tweet once,
\* sorted by user and within a user by created_at descending: adjacent rows
\* of one user have non-increasing created_at, and the rows of one user are
\* contiguous.
C8_DefaultOrdering ==
    result.op = "query_tweets" =>
        LET rows == result.rows IN
        /\ RowSet(rows) = DOMAIN tweets
        /\ Len(rows) = Cardinality(DOMAIN tweets)
        /\ \A i \in 1..(Len(rows) - 1) :
              tweets[rows[i]].user = tweets[rows[i + 1]].user
                 => tweets[rows[i]].created_at >= tweets[rows[i + 1]].created_at
        /\ \A i, j, k \in 1..Len(rows) :
              (i < j /\ j < k /\ tweets[rows[i]].user = tweets[rows[k]].user)
                 => tweets[rows[j]].user = tweets[rows[i]].user
        /\ \A i, j \in 1..Len(rows) :
              (i < j /\ tweets[rows[i]].user /= NULL /\ tweets[rows[j]].user /= NULL)
                 => tweets[rows[i]].user <= tweets[rows[j]].user

\* a query returned three tweets: two of one user, the newer first although
\* it was stored last, and one of another user that was stored between them
C8_Witness ==
    /\ result.op = "query_tweets"
    /\ Len(result.rows) = 3
    /\ \E i \in 1..2 :
          /\ tweets[result.rows[i]].user = tweets[result.rows[i + 1]].user
          /\ tweets[result.rows[i]].created_at > tweets[result.rows[i + 1]].created_at
          /\ result.rows[i] = 3
          /\ result.rows[i + 1] = 1
    /\ tweets[2].user /= tweets[1].user

\* C9: a TweetPhoto created with only tweet, user and file given starts with
\* order = 0, status = PENDING, has_deleted = FALSE and deleted_at = NULL.
C9_PhotoDefaults ==
    [][\A p \in (DOMAIN photos') \ (DOMAIN photos) :
          /\ photos'[p].order = 0
          /\ photos'[p].status = PENDING
          /\ photos'[p].has_deleted = FALSE
          /\ photos'[p].deleted_at = NULL]_vars

\* a photo has just been created and is not deleted and pending
C9_Witness ==
    /\ result.op = "create_photo"
    /\ result.value \in DOMAIN photos
    /\ photos[result.value].status = PENDING
    /\ ~photos[result.value].has_deleted

\* C10: hours_to_now is a non-negative integer at every read, also when the
\* reader's clock is behind created_at.
C10_HoursNonNegative ==
    result.op = "hours_to_now" => (result.value \in Int /\ result.value >= 0)

\* hours_to_now was read at an instant earlier than created_at
C10_Witness ==
    /\ result.op = "hours_to_now"
    /\ result.at < tweets[result.arg].created_at
    /\ result.value >= 0

====
